---- MODULE Spec2Model ----
(***************************************************************************)
(* Verification model of the SeaweedFS retrieval path:                     *)
(*   - weed/filesys/wfs.go: the open-handle table (AcquireHandle,          *)
(*     ReleaseHandle) and the pooled filer connection (withFilerClient);   *)
(*   - weed/server/filer_server_handlers_read.go: the HTTP read handler.   *)
(* Go slices are 0-based, TLA+ sequences 1-based: slot i of the Go slice   *)
(* is element i+1 of the sequence (operator At).                           *)
(***************************************************************************)
EXTENDS Integers, Sequences, FiniteSets, TLC

VARIABLES
    handles,            \* wfs.handles: sequence of *FileHandle (Nil for nil)
    pathToHandleIndex,  \* wfs.pathToHandleIndex: function path -> slot index
    nextPtr,            \* allocator: address the next newFileHandle returns
    lastCall,           \* the most recent call on the table and its outcome
    sess,               \* open-file sessions: what each one holds
    peak,               \* the most sessions that were open at the same time
    pathToHandleLock,   \* wfs.pathToHandleLock: 0 when free, else the holder
    th,                 \* threads calling into the table: position and locals
    lin,                \* the calls completed so far, applied one after another
    acquired,           \* results of the completed AcquireHandle calls
    anyRelease,         \* a ReleaseHandle call has been made
    grpcClients,        \* wfs.grpcClients: function address -> connection
    grpcClientsLock,    \* wfs.grpcClientsLock: 0 when free, else the holder
    wc,                 \* callers of withFilerClient: position and locals
    pool,               \* dials made, dials that succeeded, calls started
    req,                \* the read request being served (r) and fs.option
    rd,                 \* the read handler: position and locals
    resp,               \* the response (w): WriteHeader calls, headers, body
    pipe                \* the multipart pipe: its two ends, writer and copier

(***************************************************************************)
(* Bounds of the model.                                                    *)
(***************************************************************************)
\* Byte ranges of a multipart response.
MaxRanges == 3
\* Open-file sessions running side by side.
NumSessions == 3
\* Threads calling AcquireHandle / ReleaseHandle concurrently.
NumThreads == 2
\* Calls the threads make in one run, all threads together.
MaxCalls == 3
\* Callers of withFilerClient running concurrently.
NumClients == 2
\* withFilerClient calls made in one run, all callers together.
MaxPoolCalls == 4
\* FileHandle objects allocated in one run (caps nextPtr and the table length).
MaxHandles == 3
\* fuse.HandleID is a uint64 and int(handleId) a 64-bit signed integer; the
\* model keeps the two's-complement conversion at a width of UintBits bits.
UintBits == 6

\* Inputs: the full paths files are opened under, and the callers' ids.
Paths == {"/a", "/b"}
Uids == {0, 1000}
Gids == {0}
RECURSIVE Pow2(_)
Pow2(n) == IF n = 0 THEN 1 ELSE 2 * Pow2(n - 1)
MaxUint == Pow2(UintBits) - 1
\* Handle ids passed to ReleaseHandle: every id a table of the model can
\* hold, the first id beyond it, and the largest uint64.
HandleIDs == (0..MaxHandles) \cup {MaxUint}

(***************************************************************************)
(* Values.                                                                 *)
(***************************************************************************)
\* The nil *FileHandle.
Nil == [f |-> "", Uid |-> 0, Gid |-> 0, handle |-> 0, ptr |-> 0]

\* newFileHandle(file, uid, gid): a fresh FileHandle object. ptr stands for
\* the object's address (pointer identity); handle is set by the caller.
newFileHandle(file, uid, gid, ptr) ==
    [f |-> file, Uid |-> uid, Gid |-> gid, handle |-> 0, ptr |-> ptr]

\* file.fullpath(): a File is modelled by the full path it stands for.
fullpathOf(file) == file

\* wfs.handles[i] for a Go index i.
At(hs, i) == hs[i + 1]

\* int(handleId): uint64 -> int conversion (two's complement, UintBits wide).
IntOf(handleId) ==
    IF handleId < Pow2(UintBits - 1) THEN handleId ELSE handleId - Pow2(UintBits)

Uint64Of_PlusOne(i) == (i + 1) % Pow2(UintBits)

\* uint64(i) for a non-negative int i.
Uint64Of(i) == i % Pow2(UintBits)

FirstNilSlot_None(hs) == -1

FirstNilSlot_Last(hs) ==
    IF \E i \in 0..(Len(hs) - 1) : At(hs, i) = Nil
    THEN CHOOSE i \in 0..(Len(hs) - 1) :
            /\ At(hs, i) = Nil
            /\ \A j \in (i + 1)..(Len(hs) - 1) : At(hs, j) # Nil
    ELSE -1

\* for i, h := range wfs.handles { if h == nil {...; return} }: the index the
\* loop stops at, or -1 when it runs to the end.
FirstNilSlot(hs) ==
    IF \E i \in 0..(Len(hs) - 1) : At(hs, i) = Nil
    THEN CHOOSE i \in 0..(Len(hs) - 1) :
            /\ At(hs, i) = Nil
            /\ \A j \in 0..(i - 1) : At(hs, j) # Nil
    ELSE -1

\* delete(m, key)
MapDelete(m, key) == [k \in (DOMAIN m) \ {key} |-> m[k]]

\* m[key] = value
MapPut(m, key, value) == [k \in (DOMAIN m) \cup {key} |-> IF k = key THEN value ELSE m[k]]

(***************************************************************************)
(* WFS.AcquireHandle, as a function of the table it runs on. The whole     *)
(* body runs under pathToHandleLock (Lock; defer Unlock).                  *)
(* Result: the new table, the new map, the returned handle, the glog line  *)
(* written, whether a FileHandle was allocated, whether the call panicked. *)
(***************************************************************************)
\* index, found := wfs.pathToHandleIndex[fullpath] (0 when not found)
LookupIndex(idx, fullpath) == IF fullpath \in DOMAIN idx THEN idx[fullpath] ELSE 0

LiveHandleFound_Never(hs, idx, fullpath) == FALSE

\* line 93: found && wfs.handles[index] != nil
LiveHandleFound(hs, idx, fullpath) ==
    /\ fullpath \in DOMAIN idx
    /\ At(hs, LookupIndex(idx, fullpath)) # Nil

\* line 98: found && wfs.handles[index] != nil (the same test once more)
PreviousSlotFound(hs, idx, fullpath) ==
    /\ fullpath \in DOMAIN idx
    /\ At(hs, LookupIndex(idx, fullpath)) # Nil

AcquireHandleOp(hs, idx, file, uid, gid, ptr) ==
    LET fullpath == fullpathOf(file)
        index == LookupIndex(idx, fullpath)
        fileHandle == newFileHandle(file, uid, gid, ptr)
        i == FirstNilSlot(hs)
    IN  IF LiveHandleFound(hs, idx, fullpath)
        THEN [handles |-> hs, index |-> idx, ret |-> At(hs, index),
              log |-> "found fileHandle id",
              allocated |-> FALSE, panicked |-> FALSE]
        ELSE IF PreviousSlotFound(hs, idx, fullpath)
        THEN \* InitializeToFile on the slot's handle, then
             \* fileHandle.handle = uint64(index) on the nil named result.
             [handles |-> [hs EXCEPT ![index + 1] =
                              [@ EXCEPT !.f = file, !.Uid = uid, !.Gid = gid]],
              index |-> idx, ret |-> Nil,
              log |-> "reuse previous fileHandle id",
              allocated |-> FALSE, panicked |-> TRUE]
        ELSE IF i # -1
        THEN LET fh == [fileHandle EXCEPT !.handle = Uint64Of(i)]
             IN  [handles |-> [hs EXCEPT ![i + 1] = fh],
                  index |-> MapPut(idx, fullpath, i), ret |-> fh,
                  log |-> "reuse fileHandle id",
                  allocated |-> TRUE, panicked |-> FALSE]
        ELSE LET hs2 == Append(hs, fileHandle)
                 fh == [fileHandle EXCEPT !.handle = Uint64Of(Len(hs2) - 1)]
             IN  [handles |-> [hs2 EXCEPT ![Len(hs2)] = fh],
                  index |-> MapPut(idx, fullpath, IntOf(fh.handle)), ret |-> fh,
                  log |-> "new fileHandle id",
                  allocated |-> TRUE, panicked |-> FALSE]

(***************************************************************************)
(* WFS.ReleaseHandle, as a function of the table it runs on.               *)
(***************************************************************************)
ReleaseHandleOp_GuardedDelete(hs, idx, fullpath, handleId) ==
    LET i == IntOf(handleId)
    IN  IF i < Len(hs)
        THEN IF i >= 0
             THEN [handles |-> [hs EXCEPT ![i + 1] = Nil],
                   index |-> MapDelete(idx, fullpath), panicked |-> FALSE]
             ELSE [handles |-> hs, index |-> MapDelete(idx, fullpath),
                   panicked |-> TRUE]
        ELSE [handles |-> hs, index |-> idx, panicked |-> FALSE]

ReleaseHandleOp(hs, idx, fullpath, handleId) ==
    LET idx2 == MapDelete(idx, fullpath)
        i == IntOf(handleId)
    IN  IF i < Len(hs)
        THEN IF i >= 0
             THEN [handles |-> [hs EXCEPT ![i + 1] = Nil], index |-> idx2,
                   panicked |-> FALSE]
             ELSE \* wfs.handles[negative]: runtime panic, after the delete
                  [handles |-> hs, index |-> idx2, panicked |-> TRUE]
        ELSE [handles |-> hs, index |-> idx2, panicked |-> FALSE]

(***************************************************************************)
(* The handle table driven by arbitrary calls. lastCall records the call   *)
(* just made: op, arguments, result, and "again": the call is an           *)
(* AcquireHandle for the path of the AcquireHandle made immediately before.*)
(***************************************************************************)
NoCall == [op |-> "none", path |-> "", id |-> 0, ret |-> Nil, log |-> "",
           panicked |-> FALSE, again |-> FALSE, tick |-> 0]

Sessions == 1..NumSessions
NoSession == [state |-> "closed", path |-> "", fh |-> Nil]

InitTable ==
    /\ handles = <<>>
    /\ pathToHandleIndex = [p \in {} |-> 0]
    /\ nextPtr = 1
    /\ lastCall = NoCall
    /\ sess = [s \in Sessions |-> NoSession]
    /\ peak = 0

Threads == 1..NumThreads
Idle == [pc |-> "idle", file |-> "", uid |-> 0, gid |-> 0, handleId |-> 0,
         fileHandle |-> Nil, i |-> 0, ret |-> Nil, panicked |-> FALSE]

InitThreads ==
    /\ pathToHandleLock = 0
    /\ th = [t \in Threads |-> Idle]
    /\ lin = [handles |-> <<>>, index |-> [p \in {} |-> 0], nextPtr |-> 1,
              ok |-> TRUE, calls |-> 0]
    /\ acquired = {}
    /\ anyRelease = FALSE

Clients == 1..NumClients
\* wfs.option.FilerGrpcAddress
FilerGrpcAddress == "filer:18888"
NoConn == 0
Resting == [pc |-> "idle", conn |-> NoConn, err |-> FALSE, result |-> "",
            dials |-> 0, fnCalls |-> 0]

InitPool ==
    /\ grpcClients = [a \in {} |-> NoConn]
    /\ grpcClientsLock = 0
    /\ wc = [c \in Clients |-> Resting]
    /\ pool = [dials |-> 0, dialed |-> 0, calls |-> 0]

NoValues == [k \in {} |-> <<>>]
NoRange == [kind |-> "none", specs |-> <<>>]
NoRequest == [path |-> <<>>, method |-> "", rangeReq |-> NoRange,
              query |-> NoValues, DisableDirListing |-> FALSE,
              RedirectOnRead |-> FALSE]
NoEntry == [dir |-> FALSE, name |-> "", mime |-> "", chunks |-> <<>>]
NoUrl == [base |-> "", query |-> NoValues]
NoUpstream == [StatusCode |-> 0, Header |-> [h \in {} |-> ""]]
AtRest == [pc |-> "idle", path |-> <<>>, isForDirectory |-> FALSE,
           err |-> "", entry |-> NoEntry, urlString |-> NoUrl, u |-> NoUrl,
           upstream |-> NoUpstream, fetches |-> 0, decrypts |-> 0,
           totalSize |-> 0, mimeType |-> "", ranges |-> <<>>]
EmptyResponse == [wh |-> <<>>, header |-> [h \in {} |-> ""], body |-> <<>>,
                  listing |-> FALSE]

InitRead ==
    /\ req = NoRequest
    /\ rd = AtRest
    /\ resp = EmptyResponse

\* Before pr, pw := io.Pipe(): no writer goroutine, no copy.
NoPipe == [n |-> 0, sendSize |-> 0, ppc |-> "idle", k |-> 0, wr |-> "none",
           perr |-> "", wclosed |-> "", rclosed |-> FALSE,
           cpc |-> "idle", copied |-> 0, cerr |-> ""]

InitPipe == pipe = NoPipe

Init == InitTable /\ InitThreads /\ InitPool /\ InitRead /\ InitPipe

AcquireHandle(file, uid, gid) ==
    LET r == AcquireHandleOp(handles, pathToHandleIndex, file, uid, gid, nextPtr)
    IN  /\ r.allocated => nextPtr <= MaxHandles
        /\ handles' = r.handles
        /\ pathToHandleIndex' = r.index
        /\ nextPtr' = IF r.allocated THEN nextPtr + 1 ELSE nextPtr
        /\ lastCall' = [op |-> "acquire", path |-> fullpathOf(file), id |-> 0,
                        ret |-> r.ret, log |-> r.log, panicked |-> r.panicked,
                        again |-> (lastCall.op = "acquire"
                                   /\ lastCall.path = fullpathOf(file)),
                        tick |-> 1 - lastCall.tick]

ReleaseHandle(fullpath, handleId) ==
    LET r == ReleaseHandleOp(handles, pathToHandleIndex, fullpath, handleId)
    IN  /\ handles' = r.handles
        /\ pathToHandleIndex' = r.index
        /\ nextPtr' = nextPtr
        /\ lastCall' = [op |-> "release", path |-> fullpath, id |-> handleId,
                        ret |-> Nil, log |-> "releasing handle id",
                        panicked |-> r.panicked, again |-> FALSE,
                        tick |-> 1 - lastCall.tick]

concVars == <<pathToHandleLock, th, lin, acquired, anyRelease>>
poolVars == <<grpcClients, grpcClientsLock, wc, pool>>
readVars == <<req, rd, resp>>
NotTable == <<concVars, poolVars, readVars, pipe>>
NotConc == <<lastCall, sess, peak, poolVars, readVars, pipe>>
NotPool == <<handles, pathToHandleIndex, nextPtr, lastCall, sess, peak, concVars,
            readVars, pipe>>
NotRead == <<handles, pathToHandleIndex, nextPtr, lastCall, sess, peak, concVars,
            poolVars, pipe>>
NotPipe == <<handles, pathToHandleIndex, nextPtr, lastCall, sess, peak, concVars,
            poolVars, readVars>>

CallAcquire ==
    /\ \E file \in Paths, uid \in Uids, gid \in Gids : AcquireHandle(file, uid, gid)
    /\ UNCHANGED <<sess, peak, NotTable>>

CallRelease ==
    /\ \E fullpath \in Paths, handleId \in HandleIDs : ReleaseHandle(fullpath, handleId)
    /\ UNCHANGED <<sess, peak, NotTable>>

Next == CallAcquire \/ CallRelease

vars == <<handles, pathToHandleIndex, nextPtr, lastCall, sess, peak, concVars,
          poolVars, readVars, pipe>>

Spec == Init /\ [][Next]_vars

(***************************************************************************)
(* The handle table driven by open-file sessions: a session opens a file   *)
(* (AcquireHandle) and later closes it (ReleaseHandle with the path it     *)
(* opened and the identifier of the handle it was given).                  *)
(***************************************************************************)
\* The number of sessions that are open.
OpenSessions(ss) == Cardinality({s \in Sessions : ss[s].state = "open"})

SessionOpen(s) ==
    /\ sess[s].state = "closed"
    /\ \E file \in Paths, uid \in Uids, gid \in Gids :
          /\ AcquireHandle(file, uid, gid)
          /\ sess' = [sess EXCEPT ![s] =
                        [state |-> "open", path |-> fullpathOf(file),
                         fh |-> lastCall'.ret]]
    /\ peak' = IF OpenSessions(sess') > peak THEN OpenSessions(sess') ELSE peak
    /\ UNCHANGED NotTable

SessionClose(s) ==
    /\ sess[s].state = "open"
    /\ ReleaseHandle(sess[s].path, sess[s].fh.handle)
    /\ sess' = [sess EXCEPT ![s] = NoSession]
    /\ peak' = peak
    /\ UNCHANGED NotTable

NextSessions == \E s \in Sessions : SessionOpen(s) \/ SessionClose(s)

SpecSessions == Init /\ [][NextSessions]_vars

(***************************************************************************)
(* The handle table under concurrent callers: each thread runs             *)
(* AcquireHandle or ReleaseHandle statement by statement, between          *)
(* pathToHandleLock.Lock() and the deferred Unlock().                      *)
(* lin is the table obtained by applying each completed call, whole, in    *)
(* the order the calls unlock; lin.ok tells that every call so far has     *)
(* returned what it returns in that sequential order.                      *)
(***************************************************************************)
MutexLock_NoExclusion(t) == pathToHandleLock' = t

\* sync.Mutex.Lock: blocks until the mutex is free
MutexLock(t) ==
    /\ pathToHandleLock = 0
    /\ pathToHandleLock' = t

\* sync.Mutex.Unlock
MutexUnlock(t) == pathToHandleLock' = 0

\* FileHandle allocations the calls in flight may still make.
PendingAllocs ==
    Cardinality({t \in Threads : th[t].pc \in {"a_lock", "a_lookup", "a_reuse", "a_new"}})

\* A thread enters AcquireHandle(file, uid, gid).
StartAcquire(t) ==
    /\ th[t].pc = "idle"
    /\ nextPtr + PendingAllocs <= MaxHandles
    /\ lin.calls < MaxCalls
    /\ \E file \in Paths, uid \in Uids, gid \in Gids :
          th' = [th EXCEPT ![t] = [Idle EXCEPT !.pc = "a_lock", !.file = file,
                                              !.uid = uid, !.gid = gid]]
    /\ lin' = [lin EXCEPT !.calls = @ + 1]
    /\ UNCHANGED <<NotConc, handles, pathToHandleIndex, nextPtr, pathToHandleLock,
                   acquired, anyRelease>>

\* line 87: wfs.pathToHandleLock.Lock()
A_Lock(t) ==
    /\ th[t].pc = "a_lock"
    /\ MutexLock(t)
    /\ th' = [th EXCEPT ![t].pc = "a_lookup"]
    /\ UNCHANGED <<NotConc, handles, pathToHandleIndex, nextPtr, lin, acquired, anyRelease>>

\* lines 90-96: look the path up; return the live handle if there is one
A_Lookup(t) ==
    /\ th[t].pc = "a_lookup"
    /\ LET fullpath == fullpathOf(th[t].file)
       IN  IF LiveHandleFound(handles, pathToHandleIndex, fullpath)
           THEN th' = [th EXCEPT ![t].pc = "a_unlock",
                         ![t].ret = At(handles, LookupIndex(pathToHandleIndex, fullpath))]
           ELSE th' = [th EXCEPT ![t].pc = "a_reuse"]
    /\ UNCHANGED <<NotConc, handles, pathToHandleIndex, nextPtr, pathToHandleLock, lin,
                   acquired, anyRelease>>

\* lines 98-103: the second test of the same condition
A_ReusePrevious(t) ==
    /\ th[t].pc = "a_reuse"
    /\ LET fullpath == fullpathOf(th[t].file)
           index == LookupIndex(pathToHandleIndex, fullpath)
       IN  IF PreviousSlotFound(handles, pathToHandleIndex, fullpath)
           THEN /\ handles' = [handles EXCEPT ![index + 1] =
                                 [@ EXCEPT !.f = th[t].file, !.Uid = th[t].uid,
                                           !.Gid = th[t].gid]]
                /\ th' = [th EXCEPT ![t].pc = "a_unlock", ![t].panicked = TRUE]
           ELSE /\ handles' = handles
                /\ th' = [th EXCEPT ![t].pc = "a_new"]
    /\ UNCHANGED <<NotConc, pathToHandleIndex, nextPtr, pathToHandleLock, lin, acquired,
                   anyRelease>>

\* line 105: fileHandle = newFileHandle(file, uid, gid)
A_New(t) ==
    /\ th[t].pc = "a_new"
    /\ th' = [th EXCEPT ![t].pc = "a_scan",
                ![t].fileHandle = newFileHandle(th[t].file, th[t].uid, th[t].gid, nextPtr)]
    /\ nextPtr' = nextPtr + 1
    /\ UNCHANGED <<NotConc, handles, pathToHandleIndex, pathToHandleLock, lin, acquired,
                   anyRelease>>

\* lines 106-107: range over wfs.handles up to the first nil slot
A_Scan(t) ==
    /\ th[t].pc = "a_scan"
    /\ LET i == FirstNilSlot(handles)
       IN  IF i # -1
           THEN th' = [th EXCEPT ![t].pc = "a_install", ![t].i = i]
           ELSE th' = [th EXCEPT ![t].pc = "a_append"]
    /\ UNCHANGED <<NotConc, handles, pathToHandleIndex, nextPtr, pathToHandleLock, lin,
                   acquired, anyRelease>>

\* lines 108-112: take the nil slot found
A_Install(t) ==
    /\ th[t].pc = "a_install"
    /\ LET i == th[t].i
           fh == [th[t].fileHandle EXCEPT !.handle = Uint64Of(i)]
       IN  /\ handles' = [handles EXCEPT ![i + 1] = fh]
           /\ pathToHandleIndex' = MapPut(pathToHandleIndex, fullpathOf(th[t].file), i)
           /\ th' = [th EXCEPT ![t].pc = "a_unlock", ![t].fileHandle = fh, ![t].ret = fh]
    /\ UNCHANGED <<NotConc, nextPtr, pathToHandleLock, lin, acquired, anyRelease>>

\* lines 116-121: append a slot
A_Append(t) ==
    /\ th[t].pc = "a_append"
    /\ LET hs2 == Append(handles, th[t].fileHandle)
           fh == [th[t].fileHandle EXCEPT !.handle = Uint64Of(Len(hs2) - 1)]
       IN  /\ handles' = [hs2 EXCEPT ![Len(hs2)] = fh]
           /\ pathToHandleIndex' =
                 MapPut(pathToHandleIndex, fullpathOf(th[t].file), IntOf(fh.handle))
           /\ th' = [th EXCEPT ![t].pc = "a_unlock", ![t].fileHandle = fh, ![t].ret = fh]
    /\ UNCHANGED <<NotConc, nextPtr, pathToHandleLock, lin, acquired, anyRelease>>

\* line 88: the deferred Unlock, and the return to the caller
A_Unlock(t) ==
    /\ th[t].pc = "a_unlock"
    /\ MutexUnlock(t)
    /\ LET r == AcquireHandleOp(lin.handles, lin.index, th[t].file, th[t].uid,
                                th[t].gid, lin.nextPtr)
       IN  /\ lin' = [handles |-> r.handles, index |-> r.index,
                      nextPtr |-> IF r.allocated THEN lin.nextPtr + 1 ELSE lin.nextPtr,
                      ok |-> lin.ok /\ r.ret = th[t].ret /\ r.panicked = th[t].panicked,
                      calls |-> lin.calls]
           /\ acquired' = IF anyRelease THEN acquired
                          ELSE acquired \cup {[path |-> fullpathOf(th[t].file),
                                               fh |-> th[t].ret]}
    /\ th' = [th EXCEPT ![t] = Idle]
    /\ UNCHANGED <<NotConc, handles, pathToHandleIndex, nextPtr, anyRelease>>

\* A thread enters ReleaseHandle(fullpath, handleId).
StartRelease(t) ==
    /\ th[t].pc = "idle"
    /\ lin.calls < MaxCalls
    /\ \E fullpath \in Paths, handleId \in HandleIDs :
          th' = [th EXCEPT ![t] = [Idle EXCEPT !.pc = "r_lock", !.file = fullpath,
                                              !.handleId = handleId]]
    /\ anyRelease' = TRUE
    /\ acquired' = {}
    /\ lin' = [lin EXCEPT !.calls = @ + 1]
    /\ UNCHANGED <<NotConc, handles, pathToHandleIndex, nextPtr, pathToHandleLock>>

\* line 125: wfs.pathToHandleLock.Lock()
R_Lock(t) ==
    /\ th[t].pc = "r_lock"
    /\ MutexLock(t)
    /\ th' = [th EXCEPT ![t].pc = "r_delete"]
    /\ UNCHANGED <<NotConc, handles, pathToHandleIndex, nextPtr, lin, acquired, anyRelease>>

\* line 129: delete(wfs.pathToHandleIndex, fullpath)
R_Delete(t) ==
    /\ th[t].pc = "r_delete"
    /\ pathToHandleIndex' = MapDelete(pathToHandleIndex, th[t].file)
    /\ th' = [th EXCEPT ![t].pc = "r_null"]
    /\ UNCHANGED <<NotConc, handles, nextPtr, pathToHandleLock, lin, acquired, anyRelease>>

\* lines 130-132: nil the slot when the id is below the table length
R_Null(t) ==
    /\ th[t].pc = "r_null"
    /\ LET i == IntOf(th[t].handleId)
       IN  IF i < Len(handles)
           THEN IF i >= 0
                THEN /\ handles' = [handles EXCEPT ![i + 1] = Nil]
                     /\ th' = [th EXCEPT ![t].pc = "r_unlock"]
                ELSE /\ handles' = handles
                     /\ th' = [th EXCEPT ![t].pc = "r_unlock", ![t].panicked = TRUE]
           ELSE /\ handles' = handles
                /\ th' = [th EXCEPT ![t].pc = "r_unlock"]
    /\ UNCHANGED <<NotConc, pathToHandleIndex, nextPtr, pathToHandleLock, lin, acquired,
                   anyRelease>>

\* line 126: the deferred Unlock, and the return to the caller
R_Unlock(t) ==
    /\ th[t].pc = "r_unlock"
    /\ MutexUnlock(t)
    /\ LET r == ReleaseHandleOp(lin.handles, lin.index, th[t].file, th[t].handleId)
       IN  lin' = [handles |-> r.handles, index |-> r.index, nextPtr |-> lin.nextPtr,
                   ok |-> lin.ok /\ r.panicked = th[t].panicked, calls |-> lin.calls]
    /\ th' = [th EXCEPT ![t] = Idle]
    /\ UNCHANGED <<NotConc, handles, pathToHandleIndex, nextPtr, acquired, anyRelease>>

NextConc ==
    \E t \in Threads :
        \/ StartAcquire(t) \/ A_Lock(t) \/ A_Lookup(t) \/ A_ReusePrevious(t)
        \/ A_New(t) \/ A_Scan(t) \/ A_Install(t) \/ A_Append(t) \/ A_Unlock(t)
        \/ StartRelease(t) \/ R_Lock(t) \/ R_Delete(t) \/ R_Null(t) \/ R_Unlock(t)

SpecConc == Init /\ [][NextConc]_vars

(***************************************************************************)
(* WFS.withFilerClient under concurrent callers, statement by statement.   *)
(* fn is the caller's function: it may return nil, return an error, or     *)
(* never return. util.GrpcDial either yields a connection or an error.     *)
(***************************************************************************)
PoolLock_NoExclusion(c) == grpcClientsLock' = c

\* line 63: wfs.grpcClientsLock.Lock()
PoolLock(c) ==
    /\ grpcClientsLock = 0
    /\ grpcClientsLock' = c

\* lines 67, 74, 79: wfs.grpcClientsLock.Unlock()
PoolUnlock(c) == grpcClientsLock' = 0

\* A caller enters withFilerClient(fn).
W_Call(c) ==
    /\ wc[c].pc \in {"idle", "returned"}
    /\ pool.calls < MaxPoolCalls
    /\ wc' = [wc EXCEPT ![c] = [Resting EXCEPT !.pc = "lock"]]
    /\ pool' = [pool EXCEPT !.calls = @ + 1]
    /\ UNCHANGED <<NotPool, grpcClients, grpcClientsLock>>

\* line 63
W_Lock(c) ==
    /\ wc[c].pc = "lock"
    /\ PoolLock(c)
    /\ wc' = [wc EXCEPT ![c].pc = "lookup"]
    /\ UNCHANGED <<NotPool, grpcClients, pool>>

\* lines 65-69: pooled connection found: unlock, then call fn on it
W_Lookup(c) ==
    /\ wc[c].pc = "lookup"
    /\ IF FilerGrpcAddress \in DOMAIN grpcClients
       THEN /\ PoolUnlock(c)
            /\ wc' = [wc EXCEPT ![c].pc = "fn", ![c].fnCalls = @ + 1,
                        ![c].conn = grpcClients[FilerGrpcAddress]]
       ELSE /\ grpcClientsLock' = grpcClientsLock
            /\ wc' = [wc EXCEPT ![c].pc = "dial"]
    /\ UNCHANGED <<NotPool, grpcClients, pool>>

\* line 72: grpcConnection, err := util.GrpcDial(address)
W_Dial(c) ==
    /\ wc[c].pc = "dial"
    /\ \E ok \in BOOLEAN :
          /\ wc' = [wc EXCEPT ![c].pc = "dialed", ![c].err = ~ok,
                      ![c].dials = @ + 1,
                      ![c].conn = IF ok THEN pool.dialed + 1 ELSE NoConn]
          /\ pool' = [pool EXCEPT !.dials = @ + 1,
                        !.dialed = IF ok THEN @ + 1 ELSE @]
    /\ UNCHANGED <<NotPool, grpcClients, grpcClientsLock>>

W_DialFailed_Redial(c) ==
    /\ wc[c].pc = "dialed"
    /\ wc[c].err
    /\ wc' = [wc EXCEPT ![c].pc = "dial", ![c].err = FALSE]
    /\ UNCHANGED <<NotPool, grpcClients, grpcClientsLock, pool>>

\* lines 73-76: the dial failed: unlock and return the error
W_DialFailed(c) ==
    /\ wc[c].pc = "dialed"
    /\ wc[c].err
    /\ PoolUnlock(c)
    /\ wc' = [wc EXCEPT ![c].pc = "returned", ![c].result = "fail to dial"]
    /\ UNCHANGED <<NotPool, grpcClients, pool>>

W_Store_KeepLock(c) ==
    /\ wc[c].pc = "dialed"
    /\ ~wc[c].err
    /\ grpcClients' = MapPut(grpcClients, FilerGrpcAddress, wc[c].conn)
    /\ wc' = [wc EXCEPT ![c].pc = "fn", ![c].fnCalls = @ + 1]
    /\ UNCHANGED <<NotPool, grpcClientsLock, pool>>

\* lines 78-83: store the connection, unlock, then call fn on it
W_Store(c) ==
    /\ wc[c].pc = "dialed"
    /\ ~wc[c].err
    /\ grpcClients' = MapPut(grpcClients, FilerGrpcAddress, wc[c].conn)
    /\ PoolUnlock(c)
    /\ wc' = [wc EXCEPT ![c].pc = "fn", ![c].fnCalls = @ + 1]
    /\ UNCHANGED <<NotPool, pool>>

\* lines 69, 83: fn(client) returns, and withFilerClient returns its result
W_FnReturns(c) ==
    /\ wc[c].pc = "fn"
    /\ \E r \in {"nil", "fn error"} :
          wc' = [wc EXCEPT ![c].pc = "returned", ![c].result = r]
    /\ UNCHANGED <<NotPool, grpcClients, grpcClientsLock, pool>>

NextPool ==
    \E c \in Clients :
        \/ W_Call(c) \/ W_Lock(c) \/ W_Lookup(c) \/ W_Dial(c)
        \/ W_DialFailed(c) \/ W_Store(c) \/ W_FnReturns(c)

SpecPool == Init /\ [][NextPool]_vars

\* Every statement of withFilerClient itself is eventually executed once it
\* can be (the goroutine is scheduled); nothing is assumed of fn returning,
\* nor of further calls being made.
FairPool ==
    \A c \in Clients :
        /\ WF_vars(W_Lock(c)) /\ WF_vars(W_Lookup(c)) /\ WF_vars(W_Dial(c))
        /\ WF_vars(W_DialFailed(c)) /\ WF_vars(W_Store(c))

SpecPoolFair == Init /\ [][NextPool]_vars /\ FairPool

(***************************************************************************)
(* FilerServer.GetOrHeadHandler and the handlers it calls, one request at  *)
(* a time. A URL path is a sequence of characters. The collaborators       *)
(* (filer.FindEntry, MasterClient.LookupFileId, util.Do, util.Decrypt,     *)
(* filer2.StreamContent) answer with any of the outcomes they can have.    *)
(* resp.wh lists the status codes passed to w.WriteHeader, in order: the   *)
(* first one is the status sent; a handler that returns without any sends  *)
(* 200.                                                                    *)
(***************************************************************************)
StatusFound == 302
StatusNoContent == 204
StatusPartialContent == 206
StatusNotFound == 404
StatusMethodNotAllowed == 405
StatusRequestedRangeNotSatisfiable == 416
StatusInternalServerError == 500
StatusOK == 200

\* Inputs: request paths, and the entries the filer may hold for them.
ReqPaths == {<<"/">>, <<"/", "/">>, <<"/", "a">>, <<"/", "a", "/">>}
Methods == {"GET", "HEAD"}
PlainChunk == [fid |-> "3,01", size |-> 3, cipher |-> FALSE]
CipherChunk == [fid |-> "3,02", size |-> 3, cipher |-> TRUE]
TailChunk == [fid |-> "4,03", size |-> 2, cipher |-> FALSE]
Entries ==
    {[dir |-> TRUE, name |-> "a", mime |-> "", chunks |-> <<>>],
     [dir |-> FALSE, name |-> "a", mime |-> "", chunks |-> <<>>],
     [dir |-> FALSE, name |-> "a", mime |-> "", chunks |-> <<PlainChunk>>],
     [dir |-> FALSE, name |-> "a", mime |-> "text/plain", chunks |-> <<CipherChunk>>],
     [dir |-> FALSE, name |-> "a.txt", mime |-> "", chunks |-> <<PlainChunk, TailChunk>>],
     [dir |-> FALSE, name |-> "a", mime |-> "text/plain",
      chunks |-> <<PlainChunk, TailChunk>>]}

\* r.URL.Query() of the requests, and the URLs LookupFileId resolves to.
Queries == {NoValues, [k \in {"readDeleted"} |-> <<"true">>]}
VolumeUrls == {[base |-> "http://volume:8080/3,01", query |-> NoValues],
               [base |-> "http://volume:8080/3,01",
                query |-> [k \in {"readDeleted"} |-> <<"false">>]]}
\* Range headers: absent, malformed, or a list of first-last byte positions
\* (-1 for a position left out).
Ra(first, last) == [first |-> first, last |-> last]
RangeReqs ==
    {NoRange,
     [kind |-> "malformed", specs |-> <<>>],
     [kind |-> "bytes", specs |-> <<>>],
     [kind |-> "bytes", specs |-> <<Ra(1, 3)>>],
     [kind |-> "bytes", specs |-> <<Ra(-1, 2)>>],
     [kind |-> "bytes", specs |-> <<Ra(0, 0), Ra(4, -1)>>],
     [kind |-> "bytes", specs |-> <<Ra(0, 4), Ra(0, 4), Ra(0, 4)>>],
     [kind |-> "bytes", specs |-> <<Ra(7, 9)>>]}
\* Status codes a volume server answers a chunk fetch with.
UpstreamStatus == {200, 404}

\* strings.HasSuffix(path, "/")
HasSuffixSlash(path) == Len(path) >= 1 /\ path[Len(path)] = "/"

\* path[:len(path)-1]
DropLast(path) == SubSeq(path, 1, Len(path) - 1)

\* filer2.TotalSize(chunks): the sum of the chunks' sizes
RECURSIVE TotalSize(_)
TotalSize(chunks) ==
    IF chunks = <<>> THEN 0 ELSE Head(chunks).size + TotalSize(Tail(chunks))

\* filer2.ETag(chunks): a fingerprint of the ordered chunk list
ETag(chunks) == [k \in 1..Len(chunks) |-> chunks[k].fid]

\* w.WriteHeader(code)
WriteHeader(w, code) == [w EXCEPT !.wh = Append(@, code)]

\* w.Header().Set(key, value)
HeaderSet(w, key, value) == [w EXCEPT !.header = MapPut(@, key, value)]

\* What is written to a body: bytes [from, from+len) of the file (kind
\* "content"), or a text of the handler.
Content(from, len) == [kind |-> "content", from |-> from, len |-> len]
Text(kind) == [kind |-> kind, from |-> 0, len |-> 0]

\* w.Write(data): the first Write sends status 200 if none was written
Write(w, data) ==
    [w EXCEPT !.wh = IF @ = <<>> THEN <<StatusOK>> ELSE @,
              !.body = Append(@, data)]

\* http.Error(w, error, code)
HttpError(w, code) ==
    Write(WriteHeader(HeaderSet(w, "Content-Type", "text/plain; charset=utf-8"), code),
          Text("error text"))

\* fs.listDirectoryHandler(w, r)
ListDirectory(w) == [w EXCEPT !.listing = TRUE]

\* The status the client is sent once the handler has returned.
StatusSent(w) == IF w.wh = <<>> THEN StatusOK ELSE w.wh[1]

\* The server takes a request: r, and the fs.option it runs with. The
\* handler keeps nothing from one request to the next: a run serves one.
R_Request ==
    /\ rd.pc = "idle"
    /\ \E path \in ReqPaths, method \in Methods, query \in Queries,
          rangeReq \in RangeReqs, dis \in BOOLEAN, red \in BOOLEAN :
          req' = [path |-> path, method |-> method, rangeReq |-> rangeReq,
                  query |-> query, DisableDirListing |-> dis,
                  RedirectOnRead |-> red]
    /\ rd' = [AtRest EXCEPT !.pc = "resolve"]
    /\ resp' = EmptyResponse
    /\ UNCHANGED NotRead

ResolveFailure_NotFoundFirst(path, err, w) ==
    IF err = "ErrNotFound"
    THEN IF path = <<"/">> THEN ListDirectory(w) ELSE WriteHeader(w, StatusNotFound)
    ELSE WriteHeader(w, StatusInternalServerError)

\* lines 31-46: what the handler answers when FindEntry fails
ResolveFailure(path, err, w) ==
    IF path = <<"/">>
    THEN ListDirectory(w)
    ELSE IF err = "ErrNotFound"
         THEN WriteHeader(w, StatusNotFound)
         ELSE WriteHeader(w, StatusInternalServerError)

\* lines 24-46: trim the trailing slash and look the entry up
R_Resolve ==
    /\ rd.pc = "resolve"
    /\ LET isForDirectory == HasSuffixSlash(req.path)
           path == IF isForDirectory /\ Len(req.path) > 1
                   THEN DropLast(req.path) ELSE req.path
       IN  \E err \in {"", "ErrNotFound", "ErrOther"} :
              IF err # ""
              THEN /\ resp' = ResolveFailure(path, err, resp)
                   /\ rd' = [rd EXCEPT !.pc = "done", !.path = path, !.err = err,
                                       !.isForDirectory = isForDirectory]
              ELSE /\ resp' = resp
                   /\ \E entry \in Entries :
                         rd' = [rd EXCEPT !.pc = "directory", !.path = path,
                                          !.isForDirectory = isForDirectory,
                                          !.entry = entry]
    /\ UNCHANGED <<NotRead, req>>

\* lines 48-60: directories are listed (or refused); a file asked for with a
\* trailing slash is not found
R_Directory ==
    /\ rd.pc = "directory"
    /\ IF rd.entry.dir
       THEN /\ resp' = IF req.DisableDirListing
                       THEN WriteHeader(resp, StatusMethodNotAllowed)
                       ELSE ListDirectory(resp)
            /\ rd' = [rd EXCEPT !.pc = "done"]
       ELSE IF rd.isForDirectory
       THEN /\ resp' = WriteHeader(resp, StatusNotFound)
            /\ rd' = [rd EXCEPT !.pc = "done"]
       ELSE /\ resp' = resp
            /\ rd' = [rd EXCEPT !.pc = "chunks"]
    /\ UNCHANGED <<NotRead, req>>

R_NoChunks_HeadFallsThrough ==
    /\ rd.pc = "chunks"
    /\ IF Len(rd.entry.chunks) = 0 /\ req.method # "HEAD"
       THEN /\ resp' = WriteHeader(resp, StatusNoContent)
            /\ rd' = [rd EXCEPT !.pc = "done"]
       ELSE /\ resp' = resp
            /\ rd' = [rd EXCEPT !.pc = "head"]
    /\ UNCHANGED <<NotRead, req>>

\* lines 62-67: an entry without chunks has no content
R_NoChunks ==
    /\ rd.pc = "chunks"
    /\ IF Len(rd.entry.chunks) = 0
       THEN /\ resp' = WriteHeader(resp, StatusNoContent)
            /\ rd' = [rd EXCEPT !.pc = "done"]
       ELSE /\ resp' = resp
            /\ rd' = [rd EXCEPT !.pc = "head"]
    /\ UNCHANGED <<NotRead, req>>

\* lines 69-85: Accept-Ranges; HEAD is answered with headers alone; GET goes
\* to handleSingleChunk or handleMultipleChunks
R_HeadOrDispatch ==
    /\ rd.pc = "head"
    /\ LET w1 == HeaderSet(resp, "Accept-Ranges", "bytes")
           w2 == HeaderSet(w1, "Content-Length", TotalSize(rd.entry.chunks))
           w3 == HeaderSet(w2, "Last-Modified", "mtime")
           w4 == IF rd.entry.mime # ""
                 THEN HeaderSet(w3, "Content-Type", rd.entry.mime) ELSE w3
           w5 == HeaderSet(w4, "ETag", ETag(rd.entry.chunks))
       IN  IF req.method = "HEAD"
           THEN /\ resp' = w5
                /\ rd' = [rd EXCEPT !.pc = "done"]
           ELSE /\ resp' = w1
                /\ rd' = [rd EXCEPT !.pc = IF Len(rd.entry.chunks) = 1
                                           THEN "single" ELSE "multiple"]
    /\ UNCHANGED <<NotRead, req>>

\* url.Values.Add for every value of every key of r.URL.Query(): the values
\* of the request are appended after the values the URL has under that key
MergeQuery(q, rq) ==
    [k \in (DOMAIN q) \cup (DOMAIN rq) |->
        (IF k \in DOMAIN q THEN q[k] ELSE <<>>) \o
        (IF k \in DOMAIN rq THEN rq[k] ELSE <<>>)]

\* http.Redirect(w, r, url, code)
Redirect(w, url, code, method) ==
    LET w1 == HeaderSet(w, "Location", url)
        w2 == IF "Content-Type" \notin DOMAIN w.header
              THEN HeaderSet(w1, "Content-Type", "text/html; charset=utf-8") ELSE w1
        w3 == WriteHeader(w2, code)
    IN  IF method = "GET" THEN Write(w3, Text("redirect text")) ELSE w3

\* writeJsonError(w, r, code, err)
WriteJsonError(w, code) ==
    Write(WriteHeader(HeaderSet(w, "Content-Type", "application/json"), code),
          Text("json error"))

\* The headers a volume server sends with a chunk: the length of the stored
\* bytes (a cipher chunk is stored with its nonce and tag) and a type.
CipherOverhead == 28
UpstreamHeader(chunk) ==
    [h \in {"Content-Length", "Content-Type"} |->
        IF h = "Content-Length"
        THEN chunk.size + (IF chunk.cipher THEN CipherOverhead ELSE 0)
        ELSE "application/octet-stream"]

\* lines 91-98: resolve the chunk's URL
S_LookupFileId ==
    /\ rd.pc = "single"
    /\ \/ /\ resp' = WriteHeader(resp, StatusNotFound)
          /\ rd' = [rd EXCEPT !.pc = "done", !.err = "LookupFileId"]
       \/ /\ resp' = resp
          /\ \E urlString \in VolumeUrls :
                rd' = [rd EXCEPT !.pc = "redirect", !.urlString = urlString]
    /\ UNCHANGED <<NotRead, req>>

RedirectAllowed_WhateverTheChunk(option, chunk) == option.RedirectOnRead

\* line 100: fs.option.RedirectOnRead && entry.Chunks[0].CipherKey == nil
RedirectAllowed(option, chunk) == option.RedirectOnRead /\ ~chunk.cipher

\* lines 100-104: the redirect
S_Redirect ==
    /\ rd.pc = "redirect"
    /\ IF RedirectAllowed(req, rd.entry.chunks[1])
       THEN /\ resp' = Redirect(resp, rd.urlString, StatusFound, req.method)
            /\ rd' = [rd EXCEPT !.pc = "done"]
       ELSE /\ resp' = resp
            /\ rd' = [rd EXCEPT !.pc = "proxy"]
    /\ UNCHANGED <<NotRead, req>>

\* lines 106-131: fetch the chunk from the volume server, with the request's
\* query values added to the URL's
S_Proxy ==
    /\ rd.pc = "proxy"
    /\ LET u == [rd.urlString EXCEPT !.query = MergeQuery(@, req.query)]
       IN  \/ /\ resp' = WriteJsonError(resp, StatusInternalServerError)
              /\ rd' = [rd EXCEPT !.pc = "done", !.u = u, !.fetches = @ + 1,
                                  !.err = "Do"]
           \/ /\ resp' = resp
              /\ \E code \in UpstreamStatus :
                    rd' = [rd EXCEPT !.pc = "copy", !.u = u, !.fetches = @ + 1,
                                     !.upstream =
                                        [StatusCode |-> code,
                                         Header |-> UpstreamHeader(rd.entry.chunks[1])]]
    /\ UNCHANGED <<NotRead, req>>

\* lines 136-147: copy the volume server's headers; a plain chunk is streamed
\* with the volume server's status, a cipher chunk goes to writeEncryptedChunk
S_Copy ==
    /\ rd.pc = "copy"
    /\ LET w1 == [resp EXCEPT !.header =
                        [h \in (DOMAIN @) \cup (DOMAIN rd.upstream.Header) |->
                            IF h \in DOMAIN rd.upstream.Header
                            THEN rd.upstream.Header[h] ELSE @[h]]]
           w2 == IF rd.entry.mime # ""
                 THEN HeaderSet(w1, "Content-Type", rd.entry.mime) ELSE w1
       IN  IF ~rd.entry.chunks[1].cipher
           THEN /\ resp' = Write(WriteHeader(w2, rd.upstream.StatusCode),
                                 Content(0, rd.entry.chunks[1].size))
                /\ rd' = [rd EXCEPT !.pc = "done"]
           ELSE /\ resp' = w2
                /\ rd' = [rd EXCEPT !.pc = "encrypted"]
    /\ UNCHANGED <<NotRead, req>>

S_WriteEncrypted_Retry ==
    /\ rd.pc = "encrypted"
    /\ \/ /\ resp' = resp
          /\ rd.fetches < 2
          /\ rd' = [rd EXCEPT !.pc = "proxy", !.decrypts = @ + 1]
       \/ /\ resp' = Write(WriteHeader(HeaderSet(resp, "Content-Length",
                                                 rd.entry.chunks[1].size),
                                       rd.upstream.StatusCode),
                           Content(0, rd.entry.chunks[1].size))
          /\ rd' = [rd EXCEPT !.pc = "done", !.decrypts = @ + 1]
    /\ UNCHANGED <<NotRead, req>>

\* lines 150-167: writeEncryptedChunk: read all, decrypt, write
S_WriteEncrypted ==
    /\ rd.pc = "encrypted"
    /\ \/ /\ resp' = WriteHeader(resp, StatusNotFound)
          /\ rd' = [rd EXCEPT !.pc = "done", !.err = "ReadAll"]
       \/ /\ resp' = WriteHeader(resp, StatusNotFound)
          /\ rd' = [rd EXCEPT !.pc = "done", !.err = "Decrypt", !.decrypts = @ + 1]
       \/ /\ resp' = Write(WriteHeader(HeaderSet(resp, "Content-Length",
                                                 rd.entry.chunks[1].size),
                                       rd.upstream.StatusCode),
                           Content(0, rd.entry.chunks[1].size))
          /\ rd' = [rd EXCEPT !.pc = "done", !.decrypts = @ + 1]
    /\ UNCHANGED <<NotRead, req>>

\* parseRange(rangeReq, size): the Range header's byte ranges against the
\* total size. One range: first-last, first- (to the end), or -n (the last n
\* bytes); last is inclusive and clamped to the end.
ParseOne(spec, size) ==
    IF spec.first = -1
    THEN LET n == IF spec.last > size THEN size ELSE spec.last
         IN  [bad |-> spec.last <= 0, start |-> size - n, length |-> n]
    ELSE IF spec.last = -1
    THEN [bad |-> FALSE, start |-> spec.first, length |-> size - spec.first]
    ELSE LET end == IF spec.last >= size THEN size - 1 ELSE spec.last
         IN  [bad |-> spec.first > spec.last, start |-> spec.first,
              length |-> end - spec.first + 1]

RECURSIVE KeepSatisfiable(_, _)
KeepSatisfiable(parsed, size) ==
    IF parsed = <<>> THEN <<>>
    ELSE IF Head(parsed).start >= size
    THEN KeepSatisfiable(Tail(parsed), size)
    ELSE <<[start |-> Head(parsed).start, length |-> Head(parsed).length]>>
         \o KeepSatisfiable(Tail(parsed), size)

ParseRange(rangeReq, size) ==
    IF rangeReq.kind = "none" THEN [err |-> FALSE, ranges |-> <<>>]
    ELSE IF rangeReq.kind # "bytes" THEN [err |-> TRUE, ranges |-> <<>>]
    ELSE LET parsed == [k \in 1..Len(rangeReq.specs) |-> ParseOne(rangeReq.specs[k], size)]
             kept == KeepSatisfiable(parsed, size)
         IN  IF \E k \in 1..Len(parsed) : parsed[k].bad
             THEN [err |-> TRUE, ranges |-> <<>>]
             ELSE IF Len(parsed) > 0 /\ kept = <<>>
             THEN [err |-> TRUE, ranges |-> <<>>]
             ELSE [err |-> FALSE, ranges |-> kept]

\* sumRangesSize(ranges)
RECURSIVE SumRangesSize(_)
SumRangesSize(ranges) ==
    IF ranges = <<>> THEN 0 ELSE Head(ranges).length + SumRangesSize(Tail(ranges))

\* mime.TypeByExtension(path.Ext(name))
TypeByExtension(name) == IF name = "a.txt" THEN "text/plain; charset=utf-8" ELSE ""

\* fs.writeContent(w, entry, offset, size): filer2.StreamContent writes the
\* window to w; it may fail before any byte or after some bytes are written.
StreamOutcomes == {"ok", "failed at once", "failed midway"}
WriteContent(w, offset, size, outcome) ==
    IF outcome = "ok" THEN Write(w, Content(offset, size))
    ELSE IF outcome = "failed midway" /\ size > 1 THEN Write(w, Content(offset, size - 1))
    ELSE w

\* lines 171-193: headers; without a Range header the whole file is streamed
M_Begin ==
    /\ rd.pc = "multiple"
    /\ LET mimeType == IF rd.entry.mime # "" THEN rd.entry.mime
                       ELSE TypeByExtension(rd.entry.name)
           w1 == IF mimeType # "" THEN HeaderSet(resp, "Content-Type", mimeType)
                 ELSE resp
           w2 == HeaderSet(w1, "ETag", ETag(rd.entry.chunks))
           totalSize == TotalSize(rd.entry.chunks)
           w3 == HeaderSet(w2, "Content-Length", totalSize)
       IN  IF req.rangeReq.kind = "none"
           THEN \E outcome \in StreamOutcomes :
                   /\ resp' = IF outcome = "ok"
                              THEN WriteContent(w3, 0, totalSize, outcome)
                              ELSE HttpError(WriteContent(w3, 0, totalSize, outcome),
                                             StatusInternalServerError)
                   /\ rd' = [rd EXCEPT !.pc = "done", !.mimeType = mimeType,
                                       !.totalSize = totalSize,
                                       !.err = IF outcome = "ok" THEN "" ELSE outcome]
           ELSE /\ resp' = w2
                /\ rd' = [rd EXCEPT !.pc = "ranges", !.mimeType = mimeType,
                                    !.totalSize = totalSize]
    /\ UNCHANGED <<NotRead, req>>

\* lines 197-211: parse the Range header; give up on a parse error, on ranges
\* that add up to more than the file, and on no range at all
M_ParseRange ==
    /\ rd.pc = "ranges"
    /\ LET r == ParseRange(req.rangeReq, rd.totalSize)
       IN  IF r.err
           THEN /\ resp' = HttpError(resp, StatusRequestedRangeNotSatisfiable)
                /\ rd' = [rd EXCEPT !.pc = "done", !.err = "parseRange"]
           ELSE IF SumRangesSize(r.ranges) > rd.totalSize
           THEN /\ resp' = resp
                /\ rd' = [rd EXCEPT !.pc = "done", !.ranges = r.ranges]
           ELSE IF Len(r.ranges) = 0
           THEN /\ resp' = resp
                /\ rd' = [rd EXCEPT !.pc = "done", !.ranges = r.ranges]
           ELSE /\ resp' = resp
                /\ rd' = [rd EXCEPT !.ranges = r.ranges,
                            !.pc = IF Len(r.ranges) = 1 THEN "one range"
                                   ELSE "many ranges"]
    /\ UNCHANGED <<NotRead, req>>

\* lines 212-235: one range: 206 with Content-Range, then the window
M_SingleRange ==
    /\ rd.pc = "one range"
    /\ LET ra == rd.ranges[1]
           w1 == HeaderSet(resp, "Content-Length", ra.length)
           w2 == HeaderSet(w1, "Content-Range",
                           <<ra.start, ra.start + ra.length - 1, rd.totalSize>>)
           w3 == WriteHeader(w2, StatusPartialContent)
       IN  \E outcome \in StreamOutcomes :
              /\ resp' = IF outcome = "ok"
                         THEN WriteContent(w3, ra.start, ra.length, outcome)
                         ELSE HttpError(WriteContent(w3, ra.start, ra.length, outcome),
                                        StatusInternalServerError)
              /\ rd' = [rd EXCEPT !.pc = "done",
                                  !.err = IF outcome = "ok" THEN "" ELSE outcome]
    /\ UNCHANGED <<NotRead, req>>

\* The multipart body: for each range a part header, then its window.
RECURSIVE Parts(_, _)
Parts(w, ranges) ==
    IF ranges = <<>> THEN w
    ELSE Parts(Write(Write(w, Text("part header")),
                     Content(Head(ranges).start, Head(ranges).length)),
               Tail(ranges))

\* lines 237-272: several ranges: 206 multipart/byteranges. A goroutine writes
\* the parts into a pipe and io.CopyN copies the pipe to w; the copy ends
\* early, with an error, when a part's writeContent fails or w cannot be
\* written to. delivered is the number of parts that got through.
M_MultiRange ==
    /\ rd.pc = "many ranges"
    /\ IF \E k \in 1..Len(rd.ranges) : rd.ranges[k].start > rd.totalSize
       THEN /\ resp' = HttpError(resp, StatusRequestedRangeNotSatisfiable)
            /\ rd' = [rd EXCEPT !.pc = "done", !.err = "Out of Range"]
       ELSE LET w1 == HeaderSet(resp, "Content-Type", "multipart/byteranges")
                w2 == IF "Content-Encoding" \notin DOMAIN w1.header
                      THEN HeaderSet(w1, "Content-Length",
                                     SumRangesSize(rd.ranges) + Len(rd.ranges) + 1)
                      ELSE w1
                w3 == WriteHeader(w2, StatusPartialContent)
            IN  \E delivered \in 0..Len(rd.ranges) :
                   IF delivered = Len(rd.ranges)
                   THEN /\ resp' = Write(Parts(w3, rd.ranges), Text("closing boundary"))
                        /\ rd' = [rd EXCEPT !.pc = "done"]
                   ELSE /\ resp' = HttpError(Parts(w3, SubSeq(rd.ranges, 1, delivered)),
                                             StatusInternalServerError)
                        /\ rd' = [rd EXCEPT !.pc = "done", !.err = "CopyN"]
    /\ UNCHANGED <<NotRead, req>>

NextRead ==
    \/ R_Request \/ R_Resolve \/ R_Directory \/ R_NoChunks \/ R_HeadOrDispatch
    \/ S_LookupFileId \/ S_Redirect \/ S_Proxy \/ S_Copy \/ S_WriteEncrypted
    \/ M_Begin \/ M_ParseRange \/ M_SingleRange \/ M_MultiRange

SpecRead == Init /\ [][NextRead]_vars

(***************************************************************************)
(* handleMultipleChunks, lines 245-272: the multipart body goes through an *)
(* io.Pipe. A goroutine (the producer) writes, for every range, the part   *)
(* header (mw.CreatePart) and the range's bytes (fs.writeContent), then    *)
(* the closing boundary (mw.Close), into pw; the handler (the consumer)    *)
(* copies sendSize bytes from pr to w with io.CopyN. The pipe has no       *)
(* buffer: a Write hands its data to a Read and returns once the Read has  *)
(* taken it, or fails once the pipe is closed. What is written is counted  *)
(* in items: two per range and one for the closing boundary.               *)
(***************************************************************************)
PipeReaderClose_Forgotten(p) == p

\* line 249: defer pr.Close()
PipeReaderClose(p) == [p EXCEPT !.rclosed = TRUE]

\* pw.CloseWithError(e) / pw.Close(): the first close of the write side counts
PipeWriterClose(p, how) == [p EXCEPT !.wclosed = IF @ = "" THEN how ELSE @]

\* lines 244-250: sendSize, the pipe, the goroutine is started
Pipe_Begin ==
    /\ pipe.ppc = "idle" /\ pipe.cpc = "idle"
    /\ \E n \in 2..MaxRanges :
          pipe' = [NoPipe EXCEPT !.n = n, !.sendSize = 2 * n + 1,
                                 !.ppc = "create part", !.k = 1, !.cpc = "read"]
    /\ UNCHANGED NotPipe

\* The producer is at a statement that writes into pw.
ProducerWrites == pipe.ppc \in {"create part", "write content", "close"}

\* pw.Write: the data is offered to the reader
P_Write ==
    /\ ProducerWrites
    /\ pipe.wr = "none"
    /\ ~pipe.rclosed
    /\ pipe' = [pipe EXCEPT !.wr = "offered"]
    /\ UNCHANGED NotPipe

\* pw.Write returns after the reader took the data: lines 252, 257 go on to
\* the next statement; after mw.Close (line 262) comes pw.Close (line 263)
P_WriteReturns ==
    /\ ProducerWrites
    /\ pipe.wr = "consumed"
    /\ pipe' =
         IF pipe.ppc = "create part"
         THEN [pipe EXCEPT !.wr = "none", !.ppc = "write content"]
         ELSE IF pipe.ppc = "write content"
         THEN IF pipe.k < pipe.n
              THEN [pipe EXCEPT !.wr = "none", !.ppc = "create part", !.k = @ + 1]
              ELSE [pipe EXCEPT !.wr = "none", !.ppc = "close"]
         ELSE PipeWriterClose([pipe EXCEPT !.wr = "none", !.ppc = "done"], "EOF")
    /\ UNCHANGED NotPipe

\* pw.Write fails, at once or while it waits for the reader, because the read
\* side is closed: lines 253-256 and 257-260 close pw with the error and
\* return; the error of mw.Close (line 262) is dropped and pw.Close follows
P_WriteFails ==
    /\ ProducerWrites
    /\ pipe.wr \in {"none", "offered"}
    /\ pipe.rclosed
    /\ pipe' =
         IF pipe.ppc = "close"
         THEN PipeWriterClose([pipe EXCEPT !.wr = "none", !.ppc = "done"], "EOF")
         ELSE PipeWriterClose([pipe EXCEPT !.wr = "none", !.ppc = "done",
                                           !.perr = "ErrClosedPipe"], "error")
    /\ UNCHANGED NotPipe

\* lines 257-260: fs.writeContent fails on its own (a chunk cannot be fetched)
P_StreamFails ==
    /\ pipe.ppc = "write content"
    /\ pipe.wr = "none"
    /\ pipe' = PipeWriterClose([pipe EXCEPT !.ppc = "done",
                                            !.perr = "stream error"], "error")
    /\ UNCHANGED NotPipe

\* line 269, io.CopyN: pr.Read takes what a Write offers; with nothing offered
\* and the write side closed it returns EOF or the writer's error
C_Read ==
    /\ pipe.cpc = "read"
    /\ \/ /\ pipe.wr = "offered"
          /\ pipe' = [pipe EXCEPT !.wr = "consumed", !.cpc = "write"]
       \/ /\ pipe.wr # "offered"
          /\ pipe.wclosed # ""
          /\ pipe' = [pipe EXCEPT !.cpc = "failed",
                                  !.cerr = IF pipe.wclosed = "EOF"
                                           THEN "EOF" ELSE "pipe error"]
    /\ UNCHANGED NotPipe

\* line 269, io.CopyN: w.Write of what was read; the client may be gone
C_Write ==
    /\ pipe.cpc = "write"
    /\ \/ pipe' = [pipe EXCEPT !.copied = @ + 1,
                               !.cpc = IF pipe.copied + 1 = pipe.sendSize
                                       THEN "copied" ELSE "read"]
       \/ pipe' = [pipe EXCEPT !.cpc = "failed", !.cerr = "write failed"]
    /\ UNCHANGED NotPipe

\* lines 269-274: CopyN has returned; the handler returns (after http.Error
\* if it failed) and the deferred pr.Close runs
C_Return ==
    /\ pipe.cpc \in {"copied", "failed"}
    /\ pipe' = PipeReaderClose([pipe EXCEPT !.cpc = "returned"])
    /\ UNCHANGED NotPipe

ProducerStep == P_Write \/ P_WriteReturns \/ P_WriteFails \/ P_StreamFails
ConsumerStep == C_Read \/ C_Write \/ C_Return

NextPipe ==
    \/ Pipe_Begin
    \/ P_Write \/ P_WriteReturns \/ P_WriteFails \/ P_StreamFails
    \/ C_Read \/ C_Write \/ C_Return

SpecPipe == Init /\ [][NextPipe]_vars

\* Both goroutines are scheduled: a statement that can run eventually runs.
FairPipe == WF_vars(ProducerStep) /\ WF_vars(ConsumerStep)

SpecPipeFair == Init /\ [][NextPipe]_vars /\ FairPipe

(***************************************************************************)
(* Claims about the handle table.                                          *)
(***************************************************************************)
\* A step that is a call of AcquireHandle / ReleaseHandle (lastCall' is it).
AcquireStep == lastCall'.tick # lastCall.tick /\ lastCall'.op = "acquire"
ReleaseStep == lastCall'.tick # lastCall.tick /\ lastCall'.op = "release"

\* The nil slots of a table (Go indices).
NilSlots(hs) == {i \in 0..(Len(hs) - 1) : At(hs, i) = Nil}

\* The path has a live handle, as the table tells it: the path is mapped
\* and the slot it is mapped to is not nil.
HasLiveHandle(path) ==
    /\ path \in DOMAIN pathToHandleIndex
    /\ At(handles, pathToHandleIndex[path]) # Nil

\* C1: AcquireHandle called twice in sequence for the same full path, with no
\* ReleaseHandle in between, returns the same handle (same object, same
\* handle identifier) both times, and the second call changes neither the
\* handle table nor the path-to-index map.
C1_AcquireTwiceSameHandle ==
    [][(AcquireStep /\ lastCall.op = "acquire" /\ lastCall'.path = lastCall.path)
        => /\ lastCall'.ret = lastCall.ret
           /\ lastCall'.ret # Nil
           /\ lastCall'.ret.handle = lastCall.ret.handle
           /\ handles' = handles
           /\ pathToHandleIndex' = pathToHandleIndex]_vars

\* C1 witness: the second of two consecutive AcquireHandle calls for one path
\* has returned a handle.
C1_Witness ==
    /\ lastCall.op = "acquire"
    /\ lastCall.again
    /\ lastCall.ret # Nil
    /\ lastCall.log = "found fileHandle id"

\* C2: AcquireHandle for a path without a live handle stores the new handle in
\* the lowest-index nil slot when there is one (identifier = that index, path
\* mapped to it, table length unchanged, no other slot touched); the table
\* grows, by exactly one slot whose index becomes the identifier, only when
\* no slot is nil.
C2_FirstFitThenAppend ==
    [][/\ (AcquireStep /\ ~HasLiveHandle(lastCall'.path) /\ NilSlots(handles) # {})
          => LET fh == lastCall'.ret
                 i == IntOf(fh.handle)
             IN  /\ i \in NilSlots(handles)
                 /\ \A j \in NilSlots(handles) : i <= j
                 /\ fh # Nil /\ fh.ptr = nextPtr /\ fh.f = lastCall'.path
                 /\ Len(handles') = Len(handles)
                 /\ At(handles', i) = fh
                 /\ \A j \in 0..(Len(handles) - 1) :
                       j # i => At(handles', j) = At(handles, j)
                 /\ lastCall'.path \in DOMAIN pathToHandleIndex'
                 /\ pathToHandleIndex'[lastCall'.path] = i
       /\ (AcquireStep /\ ~HasLiveHandle(lastCall'.path) /\ NilSlots(handles) = {})
          => LET fh == lastCall'.ret
             IN  /\ Len(handles') = Len(handles) + 1
                 /\ IntOf(fh.handle) = Len(handles)
                 /\ fh # Nil /\ fh.ptr = nextPtr /\ fh.f = lastCall'.path
                 /\ handles' = Append(handles, fh)
                 /\ lastCall'.path \in DOMAIN pathToHandleIndex'
                 /\ pathToHandleIndex'[lastCall'.path] = Len(handles)
       /\ Len(handles') # Len(handles)
          => /\ AcquireStep
             /\ NilSlots(handles) = {}
             /\ Len(handles') = Len(handles) + 1]_vars

\* C2 witness: an AcquireHandle has just reused a nil slot while a nil slot
\* of higher index was there to take.
C2_Witness ==
    /\ lastCall.op = "acquire"
    /\ lastCall.log = "reuse fileHandle id"
    /\ \E j \in NilSlots(handles) : j > IntOf(lastCall.ret.handle)

\* C3: AcquireHandle for a path whose mapping still exists but whose slot is
\* nil initializes a fresh handle into that same slot and returns that slot's
\* index as the handle identifier, whatever other slots are nil.
C3_ReleasedSlotReused ==
    [][(AcquireStep
        /\ lastCall'.path \in DOMAIN pathToHandleIndex
        /\ At(handles, pathToHandleIndex[lastCall'.path]) = Nil)
        => /\ lastCall'.ret # Nil
           /\ IntOf(lastCall'.ret.handle) = pathToHandleIndex[lastCall'.path]
           /\ At(handles', pathToHandleIndex[lastCall'.path]) = lastCall'.ret]_vars

\* The table length as ReleaseHandle's caller sees it: an id is out of bounds
\* when, as an unsigned number, it is not below the table length.
OutOfBounds(handleId) == handleId >= Len(handles)

\* C4 as claimed: ReleaseHandle with an out-of-bounds id changes neither the
\* handle table nor the path-to-index map.
C4_OutOfBoundsNoOp ==
    [][(ReleaseStep /\ OutOfBounds(lastCall'.id))
        => /\ handles' = handles
           /\ pathToHandleIndex' = pathToHandleIndex]_vars

\* C4 amended: ReleaseHandle with an out-of-bounds id leaves the handle table
\* unchanged and removes the mapping of the given path, and only that one.
C4_OutOfBoundsDeletesMapping ==
    [][(ReleaseStep /\ OutOfBounds(lastCall'.id))
        => /\ handles' = handles
           /\ DOMAIN pathToHandleIndex' = (DOMAIN pathToHandleIndex) \ {lastCall'.path}
           /\ \A p \in DOMAIN pathToHandleIndex' :
                 pathToHandleIndex'[p] = pathToHandleIndex[p]]_vars

\* C4 witness: an out-of-bounds ReleaseHandle has run for a path whose handle
\* is still in the table, and the path is no longer mapped.
C4_Witness ==
    /\ lastCall.op = "release"
    /\ OutOfBounds(lastCall.id)
    /\ ~lastCall.panicked
    /\ lastCall.path \notin DOMAIN pathToHandleIndex
    /\ \E i \in 0..(Len(handles) - 1) : At(handles, i).f = lastCall.path

\* C5: the slot a session was given keeps holding that session's handle until
\* the session's own ReleaseHandle.
C5_SlotHeldUntilOwnRelease ==
    \A s \in Sessions :
        sess[s].state = "open"
        => /\ IntOf(sess[s].fh.handle) < Len(handles)
           /\ At(handles, IntOf(sess[s].fh.handle)) = sess[s].fh

\* C6: the calls are serialized by the mutex. Whenever the mutex is free the
\* table and the map are those a sequential run of the completed calls (in
\* the order they unlocked) produces, every completed call has returned what
\* it returns in that sequential run, and, as long as no ReleaseHandle has been
\* called, AcquireHandle calls for distinct paths have received distinct
\* handle identifiers and hold distinct slots.
C6_SerializedByMutex ==
    /\ lin.ok
    /\ pathToHandleLock = 0
       => /\ handles = lin.handles
          /\ pathToHandleIndex = lin.index
          /\ nextPtr = lin.nextPtr
    /\ \A a \in acquired :
          /\ a.fh # Nil
          /\ IntOf(a.fh.handle) < Len(handles)
          /\ At(handles, IntOf(a.fh.handle)) = a.fh
    /\ \A a, b \in acquired :
          a.path # b.path
          => /\ a.fh.handle # b.fh.handle
             /\ a.fh.ptr # b.fh.ptr

\* C6 witness: after an AcquireHandle has completed, two threads are inside
\* AcquireHandle for distinct paths at the same time: one has been given its
\* handle and still holds the mutex, the other waits for it.
C6_Witness ==
    \E t1, t2 \in Threads :
        /\ th[t1].pc = "a_unlock" /\ pathToHandleLock = t1 /\ th[t1].ret # Nil
        /\ th[t2].pc = "a_lock"
        /\ th[t1].file # th[t2].file
        /\ acquired # {}

(***************************************************************************)
(* Claims about withFilerClient.                                           *)
(***************************************************************************)
\* Callers that are between the start of a dial and the handling of its result.
Dialing == {c \in Clients : wc[c].pc \in {"dial", "dialed"}}

\* C7 as claimed: at most one dial is ever performed for the address: two
\* callers never both dial.
C7_AtMostOneDial == pool.dials <= 1

\* C7 amended: the dial happens under the pool lock, so no two callers are
\* dialing at the same time, a caller dials only while no connection is
\* pooled, and at most one dial succeeds; once a connection is stored, every
\* caller that runs fn runs it on that stored connection.
C7_AtMostOneSuccessfulDial ==
    /\ Cardinality(Dialing) <= 1
    /\ \A c \in Dialing :
          /\ grpcClientsLock = c
          /\ FilerGrpcAddress \notin DOMAIN grpcClients
    /\ pool.dialed <= 1
    /\ FilerGrpcAddress \in DOMAIN grpcClients
       => /\ pool.dialed = 1
          /\ grpcClients[FilerGrpcAddress] = 1
    /\ \A c \in Clients :
          wc[c].pc = "fn"
          => /\ FilerGrpcAddress \in DOMAIN grpcClients
             /\ wc[c].conn = grpcClients[FilerGrpcAddress]

\* C7 witness: a call that did not dial runs fn on the connection another
\* call dialed and stored, after an earlier dial had failed.
C7_Witness ==
    /\ pool.dials >= 2
    /\ pool.dialed = 1
    /\ \E c \in Clients :
          /\ wc[c].pc = "fn"
          /\ wc[c].dials = 0
          /\ wc[c].conn = grpcClients[FilerGrpcAddress]

\* C8: the pool lock is never held by a call whose fn executes or that has
\* returned (pooled hit, fresh dial, dial failure), and every call that waits
\* for the lock gets past it, to its fn or to its error return, even when
\* the fn of other calls never returns.
C8_LockNotHeldDuringFn ==
    /\ [](\A c \in Clients :
            wc[c].pc \in {"fn", "returned", "idle", "lock"} => grpcClientsLock # c)
    /\ \A c \in Clients :
          (wc[c].pc = "lock") ~> (wc[c].pc \in {"fn", "returned"})

\* C8 witness: while the fn of the call that dialed is still executing,
\* another call has taken the lock, found the pooled connection, released
\* the lock and is running its own fn.
C8_Witness ==
    \E c1, c2 \in Clients :
        /\ c1 # c2
        /\ wc[c1].pc = "fn"
        /\ wc[c2].pc = "fn"
        /\ wc[c1].dials = 1
        /\ wc[c2].dials = 0

\* C9: when the dial fails, the call does nothing but return the dial error:
\* fn is not invoked, no second dial is made in that call, and the pool is
\* left as it was, with no entry for the address.
C9_DialFailureReturnsError ==
    [][\A c \in Clients :
          (wc[c].pc = "dialed" /\ wc[c].err)
          => /\ grpcClients' = grpcClients
             /\ FilerGrpcAddress \notin DOMAIN grpcClients'
             /\ \/ wc'[c] = wc[c]
                \/ /\ wc'[c].pc = "returned"
                   /\ wc'[c].result = "fail to dial"
                   /\ wc'[c].fnCalls = 0
                   /\ wc'[c].dials = 1]_vars

\* C9 witness: a call has returned the dial error and the pool has no entry.
C9_Witness ==
    \E c \in Clients :
        /\ wc[c].pc = "returned"
        /\ wc[c].result = "fail to dial"
        /\ wc[c].err
        /\ FilerGrpcAddress \notin DOMAIN grpcClients

(***************************************************************************)
(* Claims about the read handler.                                          *)
(***************************************************************************)
\* The request ended in the Resolve step: FindEntry failed.
LookupFailed == rd.pc = "done" /\ rd.err \in {"ErrNotFound", "ErrOther"}
IsRoot == rd.path = <<"/">>
Listed == resp.listing /\ resp.wh = <<>>
Answered(code) == ~resp.listing /\ resp.wh = <<code>>

\* C10 as claimed: when the lookup fails, not-found for the root path gives
\* the directory listing, not-found for any other path gives 404, and every
\* other failure gives 500, for every path, the root included.
C10_ResolveFailures ==
    LookupFailed
    => IF rd.err = "ErrNotFound"
       THEN IF IsRoot THEN Listed ELSE Answered(StatusNotFound)
       ELSE Answered(StatusInternalServerError)

\* C10 amended: when the lookup fails for the root path, whatever the failure,
\* the directory listing is produced; for any other path not-found gives 404
\* and every other failure gives 500.
C10_ResolveFailuresRootListed ==
    LookupFailed
    => IF IsRoot THEN Listed
       ELSE IF rd.err = "ErrNotFound" THEN Answered(StatusNotFound)
       ELSE Answered(StatusInternalServerError)

\* C10 witness: the lookup of the root path failed with an error other than
\* not-found, and the directory listing was produced.
C10_Witness ==
    /\ LookupFailed
    /\ rd.err = "ErrOther"
    /\ IsRoot
    /\ req.path = <<"/", "/">>
    /\ Listed

\* The handler has returned from a request for a file (not a directory, no
\* trailing slash) whose entry the filer found.
ServedFile ==
    /\ rd.pc = "done"
    /\ rd.entry # NoEntry
    /\ ~rd.entry.dir
    /\ ~rd.isForDirectory
EmptyFile == ServedFile /\ rd.entry.chunks = <<>>

\* C11 as claimed: for a file with zero chunks a GET is answered with 204
\* and no body, and a HEAD with a Content-Length header of 0.
C11_EmptyFileHeadContentLength ==
    EmptyFile
    => IF req.method = "GET"
       THEN resp.wh = <<StatusNoContent>> /\ resp.body = <<>>
       ELSE /\ "Content-Length" \in DOMAIN resp.header
            /\ resp.header["Content-Length"] = 0

\* C11 amended: for a file with zero chunks GET and HEAD alike are answered
\* with 204, no body, and no header set by the handler (no Content-Length).
C11_EmptyFileNoContent ==
    EmptyFile
    => /\ resp.wh = <<StatusNoContent>>
       /\ resp.body = <<>>
       /\ DOMAIN resp.header = {}

\* C11 witness: a HEAD request for a file with zero chunks was answered 204.
C11_Witness ==
    /\ EmptyFile
    /\ req.method = "HEAD"
    /\ resp.wh = <<StatusNoContent>>

\* The entry being served is a file of one chunk that carries a cipher key.
CipherFile ==
    /\ rd.entry # NoEntry
    /\ Len(rd.entry.chunks) = 1
    /\ rd.entry.chunks[1].cipher
Redirected ==
    \/ \E k \in 1..Len(resp.wh) : resp.wh[k] = StatusFound
    \/ "Location" \in DOMAIN resp.header

\* C12: a file whose single chunk carries a cipher key is never answered with
\* a 302 redirect, whatever RedirectOnRead is and whatever the method; and a
\* request handed to handleSingleChunk for it (a GET) ends either with the
\* chunk fetched once, decrypted once and written, or with an error status.
C12_CipherChunkNeverRedirected ==
    CipherFile
    => /\ ~Redirected
       /\ (ServedFile /\ req.method = "GET")
          => \/ /\ rd.err = ""
                /\ rd.fetches = 1 /\ rd.decrypts = 1
                /\ resp.body = <<Content(0, rd.entry.chunks[1].size)>>
             \/ /\ rd.err \in {"LookupFileId", "Do", "ReadAll", "Decrypt"}
                /\ StatusSent(resp) \in {StatusNotFound, StatusInternalServerError}

\* C12 witness: with RedirectOnRead set, a GET for a file whose single chunk
\* carries a cipher key was proxied, decrypted and written.
C12_Witness ==
    /\ CipherFile /\ ServedFile
    /\ req.method = "GET" /\ req.RedirectOnRead
    /\ rd.err = "" /\ rd.decrypts = 1
    /\ resp.body # <<>>
    /\ ~Redirected

\* The handler has returned from a GET with a Range header whose ranges add
\* up to more than the file.
OversizedRanges ==
    /\ ServedFile
    /\ Len(rd.entry.chunks) > 1
    /\ req.method = "GET"
    /\ rd.ranges # <<>>
    /\ SumRangesSize(rd.ranges) > rd.totalSize

\* C13 as claimed: for a file of several chunks, a GET whose ranges add up to
\* more than the total size is served the full content: the streamer is
\* called for the window [0, totalSize), so the body starts with the file's
\* bytes from offset 0 (all of them unless the stream fails), or, when the
\* stream fails at once, carries the error.
C13_OversizedRangesServedInFull ==
    OversizedRanges
    => /\ resp.body # <<>>
       /\ \/ resp.body[1] = Text("error text")
          \/ /\ resp.body[1].kind = "content"
             /\ resp.body[1].from = 0

\* C15 as claimed: on the redirect fast path (one chunk without cipher key,
\* RedirectOnRead set) the target of the 302 is the chunk's resolved URL with
\* the request's query values merged in: the resolved URL's own values first,
\* then the request's values appended.
C15_RedirectCarriesQuery ==
    (rd.pc = "done" /\ resp.wh # <<>> /\ resp.wh[1] = StatusFound)
    => /\ "Location" \in DOMAIN resp.header
       /\ resp.header["Location"] =
             [rd.urlString EXCEPT !.query = MergeQuery(@, req.query)]

\* C16: for a file whose single chunk carries a cipher key, a failure to read
\* or to decrypt the fetched chunk body is answered with 404 and nothing is
\* written to the body; within one request the chunk is fetched at most once
\* and decrypted at most once.
C16_DecryptFailureIsNotFound ==
    /\ rd.fetches <= 1
    /\ rd.decrypts <= 1
    /\ (rd.pc = "done" /\ rd.err \in {"ReadAll", "Decrypt"})
       => /\ CipherFile
          /\ resp.wh = <<StatusNotFound>>
          /\ resp.body = <<>>

\* C16 witness: the chunk was fetched, its decryption failed, and the request
\* was answered 404 with an empty body after that one fetch and one attempt.
C16_Witness ==
    /\ rd.pc = "done" /\ rd.err = "Decrypt"
    /\ CipherFile
    /\ rd.fetches = 1 /\ rd.decrypts = 1
    /\ rd.upstream.StatusCode = 200
    /\ resp.wh = <<StatusNotFound>>
    /\ resp.body = <<>>

\* C20 as claimed: on every path through the handler the response status is
\* committed at most once: no second status code is written after a status
\* (written by WriteHeader, or the 200 implied by the first body bytes) has
\* been sent.
C20_StatusCommittedOnce == Len(resp.wh) <= 1

(***************************************************************************)
(* Claims about the handle table over whole runs.                          *)
(***************************************************************************)
\* C17: when every session calls AcquireHandle once and later ReleaseHandle
\* with its own path and the identifier it was given, the handle table is
\* never longer than the largest number of sessions that were open at the
\* same time.
C17_TableBoundedByPeakSessions == Len(handles) <= peak

\* C17 witness: sessions opened and closed one after another, never two at
\* a time; the last open took the slot a closed session had freed, and the
\* table, after two allocations, has length one.
C17_Witness ==
    /\ peak = 1
    /\ nextPtr >= 3
    /\ Len(handles) = 1
    /\ lastCall.op = "acquire"
    /\ lastCall.log = "reuse fileHandle id"
    /\ OpenSessions(sess) = 1

\* C18 as claimed: when every release uses the path and the identifier an
\* earlier AcquireHandle gave, no two distinct paths are mapped to the same
\* slot index, and the handle AcquireHandle(file) returns was created for
\* that file's full path.
C18_HandleBelongsToPath ==
    /\ \A p, q \in DOMAIN pathToHandleIndex :
          p # q => pathToHandleIndex[p] # pathToHandleIndex[q]
    /\ (lastCall.op = "acquire" /\ lastCall.ret # Nil)
       => fullpathOf(lastCall.ret.f) = lastCall.path

\* C19: in every reachable state each non-nil slot i holds a handle whose
\* identifier is i, and every index in the path-to-index map is within the
\* table (0 <= index < table length); so a handle keeps its identifier for as
\* long as it stays in its slot.
C19_SlotHoldsOwnIdentifier ==
    /\ [](/\ \A i \in 0..(Len(handles) - 1) :
               At(handles, i) # Nil => At(handles, i).handle = i
          /\ \A p \in DOMAIN pathToHandleIndex :
               /\ 0 <= pathToHandleIndex[p]
               /\ pathToHandleIndex[p] < Len(handles))
    /\ [][\A i \in 0..(Len(handles) - 1) :
             (/\ At(handles, i) # Nil
              /\ At(handles', i) # Nil
              /\ At(handles', i).ptr = At(handles, i).ptr)
             => At(handles', i).handle = At(handles, i).handle]_vars

\* C19 witness: after releases and a reuse, the table holds a nil slot and a
\* handle past it, every handle in the slot of its identifier, while a
\* release with an out-of-range identifier has just been made.
C19_Witness ==
    /\ Len(handles) = 3
    /\ At(handles, 0) = Nil
    /\ At(handles, 1) # Nil /\ At(handles, 1).handle = 1
    /\ At(handles, 2) # Nil /\ At(handles, 2).handle = 2
    /\ DOMAIN pathToHandleIndex # {}
    /\ lastCall.op = "release"
    /\ lastCall.id = MaxHandles

(***************************************************************************)
(* Claims about the multipart pipe.                                        *)
(***************************************************************************)
\* C14: under every interleaving of the producer and the consumer, when the
\* consumer returns the read side of the pipe is closed, a write the producer
\* then makes (or waits in) fails and ends the producer, and the producer
\* eventually terminates; and when the producer has failed or finished the
\* write side is closed and the consumer eventually returns.
C14_NeitherSideBlocksForever ==
    /\ [](pipe.cpc = "returned" => pipe.rclosed)
    /\ [](pipe.ppc = "done" => pipe.wclosed # "")
    /\ [][(pipe.rclosed /\ pipe.wr # "consumed" /\ pipe'.ppc # pipe.ppc)
          => pipe'.ppc = "done"]_vars
    /\ (pipe.cpc = "returned") ~> (pipe.ppc = "done")
    /\ (pipe.ppc = "done") ~> (pipe.cpc = "returned")

\* C14 witness: the consumer gave up early (a write to the client failed
\* before everything was copied), and the producer, which had more to write,
\* ended with the closed-pipe error.
C14_Witness ==
    /\ pipe.cpc = "returned"
    /\ pipe.cerr = "write failed"
    /\ pipe.copied < pipe.sendSize - 2
    /\ pipe.rclosed
    /\ pipe.ppc = "done"
    /\ pipe.perr = "ErrClosedPipe"

====
